---------------------------- MODULE Spec2Model ----------------------------
(***************************************************************************)
(* Model of the schema comparison engine of pg_schema_check:               *)
(* compare.CompareSchemas and its helpers compareColumns,                  *)
(* comparePrimaryKeys, compareIndexes, compareForeignKeys and              *)
(* compareStringSlices, over the data types of pkg/schema.                 *)
(*                                                                         *)
(* Go's `range` over a map visits the keys in an unspecified order, so     *)
(* every map loop of the code is modelled as a nondeterministic choice of  *)
(* the visiting order.                                                     *)
(***************************************************************************)
EXTENDS Integers, Sequences, FiniteSets, TLC

VARIABLES source, target, pc, pending, differences, returned, cli

vars == <<source, target, pc, pending, differences, returned, cli>>

----------------------------------------------------------------------------
(* Bounds of the model *)

\* longest string slice (primary key, index columns, foreign-key columns)
MaxSlice == 2
\* longest column / index / foreign-key list of a table that carries
\* duplicate names
MaxDup == 2
\* number of calls of CompareSchemas made on the same pair of schemas
MaxCalls == 2

----------------------------------------------------------------------------
(* Generic helpers *)

\* all sequences over S of length at most n
SeqsUpTo(S, n) == UNION {[1..k -> S] : k \in 0..n}

\* the orders in which a `range` loop may visit the key set S
Orders(S) == {o \in [1..Cardinality(S) -> S] :
                 \A i, j \in 1..Cardinality(S) : i # j => o[i] # o[j]}

\* number of positions of the list s that satisfy P
Count(s, P(_)) == Cardinality({i \in 1..Len(s) : P(s[i])})

----------------------------------------------------------------------------
(* pkg/schema: the data model *)

ColumnInfo(name, type, nullable, default, isIdentity) ==
    [Name |-> name, Type |-> type, Nullable |-> nullable,
     Default |-> default, IsIdentity |-> isIdentity]

IndexInfo(name, columns, unique) ==
    [Name |-> name, Columns |-> columns, Unique |-> unique]

ForeignKeyInfo(name, columns, referencedTable, referencedColumns) ==
    [Name |-> name, Columns |-> columns, ReferencedTable |-> referencedTable,
     ReferencedColumns |-> referencedColumns]

TableInfo(name, columns, primaryKeys, indexes, foreignKeys) ==
    [Name |-> name, Columns |-> columns, PrimaryKeys |-> primaryKeys,
     Indexes |-> indexes, ForeignKeys |-> foreignKeys]

\* Schema.Tables is a Go map: a function from the set of its keys
Schema(tables) == [Tables |-> tables]

\* NewSchema: the empty table map
NewSchema == Schema(<<>>)

----------------------------------------------------------------------------
(* fmt.Sprintf verbs used by the descriptions *)

\* %v of a bool
FmtBool(b) == IF b THEN "true" ELSE "false"

\* %d of an int
FmtInt(n) == ToString(n)

\* %v of a []string: the elements separated by one space, in brackets
FmtStrings(s) ==
    LET join[i \in 0..Len(s)] ==
            IF i = 0 THEN ""
            ELSE IF i = 1 THEN s[1]
            ELSE join[i - 1] \o " " \o s[i]
    IN  "[" \o join[Len(s)] \o "]"

----------------------------------------------------------------------------
(* compare: the Difference type *)

Difference(type, table, description) ==
    [Type |-> type, Table |-> table, Description |-> description]

\* compareStringSlices that compares the slices as sets of elements
compareStringSlices_AsSets(a, b) ==
    {a[i] : i \in 1..Len(a)} = {b[i] : i \in 1..Len(b)}

\* compareStringSlices: equal length and equal element at every position
compareStringSlices(a, b) ==
    IF Len(a) # Len(b) THEN FALSE
    ELSE \A i \in 1..Len(a) : a[i] = b[i]

\* BuildMap that keeps the entry a name already has: the first entry wins
BuildMap_FirstWins(list) ==
    LET build[i \in 0..Len(list)] ==
            IF i = 0 THEN <<>>
            ELSE [n \in (DOMAIN build[i - 1]) \cup {list[i].Name} |->
                     IF n \in DOMAIN build[i - 1] THEN build[i - 1][n]
                     ELSE list[i]]
    IN  build[Len(list)]

\* the lookup maps built by `for _, x := range list { m[x.Name] = x }`:
\* a later entry overwrites an earlier one of the same name
BuildMap(list) ==
    LET build[i \in 0..Len(list)] ==
            IF i = 0 THEN <<>>
            ELSE [n \in (DOMAIN build[i - 1]) \cup {list[i].Name} |->
                     IF n = list[i].Name THEN list[i] ELSE build[i - 1][n]]
    IN  build[Len(list)]


\* the differences a loop appends: body[k] are the differences the visit of
\* key k appends, order is the order in which the loop visits the keys
Loop(order, body) ==
    LET acc[i \in 0..Len(order)] ==
            IF i = 0 THEN <<>> ELSE acc[i - 1] \o body[order[i]]
    IN  acc[Len(order)]

----------------------------------------------------------------------------
(* compareColumns *)

\* columnChecks that compares the default of the source column with the
\* type of the target column
columnChecks_DefaultAgainstType(tableName, name, sourceCol, targetCol) ==
    IF sourceCol.Default # targetCol.Type
    THEN <<Difference("ColumnDefaultMismatch", tableName,
             "Column '" \o name \o "' has different default values: source="
             \o sourceCol.Default \o ", target=" \o targetCol.Default)>>
    ELSE <<>>

\* columnChecks without the identity check
columnChecks_NoIdentity(tableName, name, sourceCol, targetCol) ==
    (IF sourceCol.Type # targetCol.Type
     THEN <<Difference("ColumnTypeMismatch", tableName,
              "Column '" \o name \o "' has different types: source="
              \o sourceCol.Type \o ", target=" \o targetCol.Type)>>
     ELSE <<>>)
    \o
    (IF sourceCol.Nullable # targetCol.Nullable
     THEN <<Difference("ColumnNullableMismatch", tableName,
              "Column '" \o name \o "' has different nullable settings: source="
              \o FmtBool(sourceCol.Nullable) \o ", target="
              \o FmtBool(targetCol.Nullable))>>
     ELSE <<>>)
    \o
    (IF sourceCol.Default # targetCol.Default
     THEN <<Difference("ColumnDefaultMismatch", tableName,
              "Column '" \o name \o "' has different default values: source="
              \o sourceCol.Default \o ", target=" \o targetCol.Default)>>
     ELSE <<>>)

\* columnChecks as an if / else-if chain: the first mismatch ends the checks
columnChecks_ElseIf(tableName, name, sourceCol, targetCol) ==
    IF sourceCol.Type # targetCol.Type
    THEN <<Difference("ColumnTypeMismatch", tableName,
             "Column '" \o name \o "' has different types: source="
             \o sourceCol.Type \o ", target=" \o targetCol.Type)>>
    ELSE IF sourceCol.Nullable # targetCol.Nullable
    THEN <<Difference("ColumnNullableMismatch", tableName,
             "Column '" \o name \o "' has different nullable settings: source="
             \o FmtBool(sourceCol.Nullable) \o ", target="
             \o FmtBool(targetCol.Nullable))>>
    ELSE IF sourceCol.Default # targetCol.Default
    THEN <<Difference("ColumnDefaultMismatch", tableName,
             "Column '" \o name \o "' has different default values: source="
             \o sourceCol.Default \o ", target=" \o targetCol.Default)>>
    ELSE IF sourceCol.IsIdentity # targetCol.IsIdentity
    THEN <<Difference("ColumnIdentityMismatch", tableName,
             "Column '" \o name \o "' has different identity settings: source="
             \o FmtBool(sourceCol.IsIdentity) \o ", target="
             \o FmtBool(targetCol.IsIdentity))>>
    ELSE <<>>

\* the four field checks made for a column present on both sides
columnChecks(tableName, name, sourceCol, targetCol) ==
    (IF sourceCol.Type # targetCol.Type
     THEN <<Difference("ColumnTypeMismatch", tableName,
              "Column '" \o name \o "' has different types: source="
              \o sourceCol.Type \o ", target=" \o targetCol.Type)>>
     ELSE <<>>)
    \o
    (IF sourceCol.Nullable # targetCol.Nullable
     THEN <<Difference("ColumnNullableMismatch", tableName,
              "Column '" \o name \o "' has different nullable settings: source="
              \o FmtBool(sourceCol.Nullable) \o ", target="
              \o FmtBool(targetCol.Nullable))>>
     ELSE <<>>)
    \o
    (IF sourceCol.Default # targetCol.Default
     THEN <<Difference("ColumnDefaultMismatch", tableName,
              "Column '" \o name \o "' has different default values: source="
              \o sourceCol.Default \o ", target=" \o targetCol.Default)>>
     ELSE <<>>)
    \o
    (IF sourceCol.IsIdentity # targetCol.IsIdentity
     THEN <<Difference("ColumnIdentityMismatch", tableName,
              "Column '" \o name \o "' has different identity settings: source="
              \o FmtBool(sourceCol.IsIdentity) \o ", target="
              \o FmtBool(targetCol.IsIdentity))>>
     ELSE <<>>)

\* compareColumns whose first loop ends (break for continue) at the first
\* column that target lacks
compareColumns_Break(tableName, src, tgt, srcOrder, tgtOrder) ==
    LET sourceMap == BuildMap(src)
        targetMap == BuildMap(tgt)
        firstLoop[i \in 0..Len(srcOrder)] ==
            IF i = 0 THEN [out |-> <<>>, stop |-> FALSE]
            ELSE IF firstLoop[i - 1].stop THEN firstLoop[i - 1]
            ELSE IF srcOrder[i] \notin DOMAIN targetMap
            THEN [out |-> Append(firstLoop[i - 1].out,
                            Difference("MissingColumn", tableName,
                                "Column '" \o srcOrder[i]
                                \o "' exists in source but not in target")),
                  stop |-> TRUE]
            ELSE [out |-> firstLoop[i - 1].out
                            \o columnChecks(tableName, srcOrder[i],
                                   sourceMap[srcOrder[i]], targetMap[srcOrder[i]]),
                  stop |-> FALSE]
        visitTarget == [name \in DOMAIN targetMap |->
            IF name \notin DOMAIN sourceMap
            THEN <<Difference("ExtraColumn", tableName,
                     "Column '" \o name \o "' exists in target but not in source")>>
            ELSE <<>>]
    IN  firstLoop[Len(srcOrder)].out \o Loop(tgtOrder, visitTarget)

\* srcOrder, tgtOrder: the orders in which the two loops visit sourceMap
\* and targetMap
compareColumns(tableName, src, tgt, srcOrder, tgtOrder) ==
    LET sourceMap == BuildMap(src)
        targetMap == BuildMap(tgt)
        visitSource == [name \in DOMAIN sourceMap |->
            IF name \notin DOMAIN targetMap
            THEN <<Difference("MissingColumn", tableName,
                     "Column '" \o name \o "' exists in source but not in target")>>
            ELSE columnChecks(tableName, name, sourceMap[name], targetMap[name])]
        visitTarget == [name \in DOMAIN targetMap |->
            IF name \notin DOMAIN sourceMap
            THEN <<Difference("ExtraColumn", tableName,
                     "Column '" \o name \o "' exists in target but not in source")>>
            ELSE <<>>]
    IN  Loop(srcOrder, visitSource) \o Loop(tgtOrder, visitTarget)

----------------------------------------------------------------------------
(* comparePrimaryKeys *)

\* comparePrimaryKeys without the return after the count mismatch: the
\* positions both keys have are compared as well
comparePrimaryKeys_NoReturn(tableName, src, tgt) ==
    LET shorter == IF Len(src) < Len(tgt) THEN Len(src) ELSE Len(tgt)
        visit == [i \in 1..shorter |->
            IF src[i] # tgt[i]
            THEN <<Difference("PrimaryKeyMismatch", tableName,
                     "Primary key column mismatch at position "
                     \o FmtInt(i) \o ": source=" \o src[i]
                     \o ", target=" \o tgt[i])>>
            ELSE <<>>]
    IN  (IF Len(src) # Len(tgt)
         THEN <<Difference("PrimaryKeyMismatch", tableName,
                  "Different number of primary key columns: source="
                  \o FmtInt(Len(src)) \o ", target=" \o FmtInt(Len(tgt)))>>
         ELSE <<>>)
        \o Loop([i \in 1..shorter |-> i], visit)

\* comparePrimaryKeys that reports a different count only when the source
\* key is the longer one, and otherwise compares the positions of the source
comparePrimaryKeys_SourceLonger(tableName, src, tgt) ==
    IF Len(src) > Len(tgt)
    THEN <<Difference("PrimaryKeyMismatch", tableName,
             "Different number of primary key columns: source="
             \o FmtInt(Len(src)) \o ", target=" \o FmtInt(Len(tgt)))>>
    ELSE LET visit == [i \in 1..Len(src) |->
                 IF src[i] # tgt[i]
                 THEN <<Difference("PrimaryKeyMismatch", tableName,
                          "Primary key column mismatch at position "
                          \o FmtInt(i) \o ": source=" \o src[i]
                          \o ", target=" \o tgt[i])>>
                 ELSE <<>>]
         IN  Loop([i \in 1..Len(src) |-> i], visit)

comparePrimaryKeys(tableName, src, tgt) ==
    IF Len(src) # Len(tgt)
    THEN <<Difference("PrimaryKeyMismatch", tableName,
             "Different number of primary key columns: source="
             \o FmtInt(Len(src)) \o ", target=" \o FmtInt(Len(tgt)))>>
    ELSE LET visit == [i \in 1..Len(src) |->
                 IF src[i] # tgt[i]
                 THEN <<Difference("PrimaryKeyMismatch", tableName,
                          "Primary key column mismatch at position "
                          \o FmtInt(i) \o ": source=" \o src[i]
                          \o ", target=" \o tgt[i])>>
                 ELSE <<>>]
         \* Go's i runs from 0 and the code prints i+1; TLA+ sequences are
         \* 1-based, so the i here is already the printed position
         IN  Loop([i \in 1..Len(src) |-> i], visit)

----------------------------------------------------------------------------
(* compareIndexes *)

\* the two checks made for an index present on both sides
indexChecks(tableName, name, sourceIdx, targetIdx) ==
    (IF sourceIdx.Unique # targetIdx.Unique
     THEN <<Difference("IndexUniqueMismatch", tableName,
              "Index '" \o name \o "' has different unique settings: source="
              \o FmtBool(sourceIdx.Unique) \o ", target="
              \o FmtBool(targetIdx.Unique))>>
     ELSE <<>>)
    \o
    (IF ~compareStringSlices(sourceIdx.Columns, targetIdx.Columns)
     THEN <<Difference("IndexColumnsMismatch", tableName,
              "Index '" \o name \o "' has different columns: source="
              \o FmtStrings(sourceIdx.Columns) \o ", target="
              \o FmtStrings(targetIdx.Columns))>>
     ELSE <<>>)

\* compareIndexes whose second loop looks the name up in targetMap, the map
\* it ranges over, so that no index is ever extra
compareIndexes_NoExtra(tableName, src, tgt, srcOrder, tgtOrder) ==
    LET sourceMap == BuildMap(src)
        targetMap == BuildMap(tgt)
        visitSource == [name \in DOMAIN sourceMap |->
            IF name \notin DOMAIN targetMap
            THEN <<Difference("MissingIndex", tableName,
                     "Index '" \o name \o "' exists in source but not in target")>>
            ELSE indexChecks(tableName, name, sourceMap[name], targetMap[name])]
    IN  Loop(srcOrder, visitSource)

compareIndexes(tableName, src, tgt, srcOrder, tgtOrder) ==
    LET sourceMap == BuildMap(src)
        targetMap == BuildMap(tgt)
        visitSource == [name \in DOMAIN sourceMap |->
            IF name \notin DOMAIN targetMap
            THEN <<Difference("MissingIndex", tableName,
                     "Index '" \o name \o "' exists in source but not in target")>>
            ELSE indexChecks(tableName, name, sourceMap[name], targetMap[name])]
        visitTarget == [name \in DOMAIN targetMap |->
            IF name \notin DOMAIN sourceMap
            THEN <<Difference("ExtraIndex", tableName,
                     "Index '" \o name \o "' exists in target but not in source")>>
            ELSE <<>>]
    IN  Loop(srcOrder, visitSource) \o Loop(tgtOrder, visitTarget)

----------------------------------------------------------------------------
(* compareForeignKeys *)

\* foreignKeyChecks as an if / else-if chain: the first mismatch ends the
\* checks
foreignKeyChecks_ElseIf(tableName, name, sourceFK, targetFK) ==
    IF sourceFK.ReferencedTable # targetFK.ReferencedTable
    THEN <<Difference("ForeignKeyReferenceMismatch", tableName,
             "Foreign key '" \o name \o "' references different tables: source="
             \o sourceFK.ReferencedTable \o ", target="
             \o targetFK.ReferencedTable)>>
    ELSE IF ~compareStringSlices(sourceFK.Columns, targetFK.Columns)
    THEN <<Difference("ForeignKeyColumnsMismatch", tableName,
             "Foreign key '" \o name \o "' has different columns: source="
             \o FmtStrings(sourceFK.Columns) \o ", target="
             \o FmtStrings(targetFK.Columns))>>
    ELSE IF ~compareStringSlices(sourceFK.ReferencedColumns,
                                 targetFK.ReferencedColumns)
    THEN <<Difference("ForeignKeyReferencedColumnsMismatch", tableName,
             "Foreign key '" \o name \o "' references different columns: source="
             \o FmtStrings(sourceFK.ReferencedColumns) \o ", target="
             \o FmtStrings(targetFK.ReferencedColumns))>>
    ELSE <<>>

\* the three checks made for a foreign key present on both sides
foreignKeyChecks(tableName, name, sourceFK, targetFK) ==
    (IF sourceFK.ReferencedTable # targetFK.ReferencedTable
     THEN <<Difference("ForeignKeyReferenceMismatch", tableName,
              "Foreign key '" \o name \o "' references different tables: source="
              \o sourceFK.ReferencedTable \o ", target="
              \o targetFK.ReferencedTable)>>
     ELSE <<>>)
    \o
    (IF ~compareStringSlices(sourceFK.Columns, targetFK.Columns)
     THEN <<Difference("ForeignKeyColumnsMismatch", tableName,
              "Foreign key '" \o name \o "' has different columns: source="
              \o FmtStrings(sourceFK.Columns) \o ", target="
              \o FmtStrings(targetFK.Columns))>>
     ELSE <<>>)
    \o
    (IF ~compareStringSlices(sourceFK.ReferencedColumns, targetFK.ReferencedColumns)
     THEN <<Difference("ForeignKeyReferencedColumnsMismatch", tableName,
              "Foreign key '" \o name \o "' references different columns: source="
              \o FmtStrings(sourceFK.ReferencedColumns) \o ", target="
              \o FmtStrings(targetFK.ReferencedColumns))>>
     ELSE <<>>)

compareForeignKeys(tableName, src, tgt, srcOrder, tgtOrder) ==
    LET sourceMap == BuildMap(src)
        targetMap == BuildMap(tgt)
        visitSource == [name \in DOMAIN sourceMap |->
            IF name \notin DOMAIN targetMap
            THEN <<Difference("MissingForeignKey", tableName,
                     "Foreign key '" \o name \o "' exists in source but not in target")>>
            ELSE foreignKeyChecks(tableName, name, sourceMap[name], targetMap[name])]
        visitTarget == [name \in DOMAIN targetMap |->
            IF name \notin DOMAIN sourceMap
            THEN <<Difference("ExtraForeignKey", tableName,
                     "Foreign key '" \o name \o "' exists in target but not in source")>>
            ELSE <<>>]
    IN  Loop(srcOrder, visitSource) \o Loop(tgtOrder, visitTarget)

----------------------------------------------------------------------------
(* CompareSchemas: one visit of the loop over source.Tables for a table    *)
(* that target has too: the four sub-comparisons, appended in the code's   *)
(* order.  ord holds the visiting orders of the six map loops.             *)

\* the names held by the lookup map of a list
Names(list) == {list[i].Name : i \in 1..Len(list)}

\* the visiting orders the six map loops of one table comparison may take
TableOrders(sourceTable, targetTable) ==
    [colSrc : Orders(Names(sourceTable.Columns)),
     colTgt : Orders(Names(targetTable.Columns)),
     idxSrc : Orders(Names(sourceTable.Indexes)),
     idxTgt : Orders(Names(targetTable.Indexes)),
     fkSrc  : Orders(Names(sourceTable.ForeignKeys)),
     fkTgt  : Orders(Names(targetTable.ForeignKeys))]

\* compareTable that compares the primary keys before the columns
compareTable_PrimaryKeysFirst(tableName, sourceTable, targetTable, ord) ==
    comparePrimaryKeys(tableName, sourceTable.PrimaryKeys,
                       targetTable.PrimaryKeys)
    \o compareColumns(tableName, sourceTable.Columns, targetTable.Columns,
                      ord.colSrc, ord.colTgt)
    \o compareIndexes(tableName, sourceTable.Indexes, targetTable.Indexes,
                      ord.idxSrc, ord.idxTgt)
    \o compareForeignKeys(tableName, sourceTable.ForeignKeys,
                          targetTable.ForeignKeys, ord.fkSrc, ord.fkTgt)

compareTable(tableName, sourceTable, targetTable, ord) ==
    compareColumns(tableName, sourceTable.Columns, targetTable.Columns,
                   ord.colSrc, ord.colTgt)
    \o comparePrimaryKeys(tableName, sourceTable.PrimaryKeys,
                          targetTable.PrimaryKeys)
    \o compareIndexes(tableName, sourceTable.Indexes, targetTable.Indexes,
                      ord.idxSrc, ord.idxTgt)
    \o compareForeignKeys(tableName, sourceTable.ForeignKeys,
                          targetTable.ForeignKeys, ord.fkSrc, ord.fkTgt)

----------------------------------------------------------------------------
(* The schemas the comparison is run on *)

WellFormed(list) ==
    \A i, j \in 1..Len(list) : i # j => list[i].Name # list[j].Name

\* the lists over pool that carry every name at most once, and the lists over
\* the smaller pool dupPool of at most MaxDup entries that repeat a name
Lists(pool, dupPool) ==
    {l \in SeqsUpTo(pool, Cardinality({x.Name : x \in pool})) : WellFormed(l)}
    \cup {l \in SeqsUpTo(dupPool, MaxDup) : ~WellFormed(l)}

\* string slices over the column names
Slices == SeqsUpTo({"id", "email"}, MaxSlice)

ColumnFields == {"Type", "Nullable", "Default", "IsIdentity"}

\* column id with the fields of `changed` set to their second value
idColumn(changed) ==
    ColumnInfo("id",
               IF "Type" \in changed THEN "bigint" ELSE "integer",
               "Nullable" \in changed,
               IF "Default" \in changed THEN "0" ELSE "",
               "IsIdentity" \in changed)

emailColumn == ColumnInfo("email", "text", TRUE, "", FALSE)

\* id as it is, with one field changed, and with all four changed: any two
\* of them differ in a different set of fields, and every set of fields
\* is the difference of some two
IdColumns ==
    {idColumn(c) : c \in {{}, ColumnFields} \cup {{f} : f \in ColumnFields}}

ColumnLists ==
    Lists(IdColumns \cup {emailColumn},
          {idColumn({}), idColumn(ColumnFields), emailColumn})

idIndex(columns, unique) == IndexInfo("users_id_idx", columns, unique)

emailIndex == IndexInfo("users_email_idx", <<"email">>, TRUE)

IdIndexes ==
    {idIndex(c, FALSE) : c \in Slices}
    \cup {idIndex(<<"id">>, TRUE), idIndex(<<"email", "id">>, TRUE)}

IndexLists ==
    Lists(IdIndexes \cup {emailIndex},
          {idIndex(<<"id">>, FALSE), idIndex(<<"email", "id">>, TRUE), emailIndex})

FKFields == {"ReferencedTable", "Columns", "ReferencedColumns"}

\* foreign key owner_fk with the fields of `changed` set to their second value
ownerFK(changed) ==
    ForeignKeyInfo("owner_fk",
        IF "Columns" \in changed THEN <<"email", "id">> ELSE <<"id", "email">>,
        IF "ReferencedTable" \in changed THEN "orders" ELSE "users",
        IF "ReferencedColumns" \in changed THEN <<"id", "email">> ELSE <<"id">>)

parentFK == ForeignKeyInfo("parent_fk", <<"id">>, "users", <<"id">>)

OwnerFKs == {ownerFK(c) : c \in SUBSET FKFields}

ForeignKeyLists ==
    Lists(OwnerFKs \cup {parentFK}, {ownerFK({}), ownerFK(FKFields), parentFK})

\* tables that vary in one of the four parts only
ColumnTables(name) ==
    {TableInfo(name, c, <<"id">>, <<>>, <<>>) : c \in ColumnLists}
PrimaryKeyTables(name) ==
    {TableInfo(name, <<idColumn({}), emailColumn>>, k, <<>>, <<>>) : k \in Slices}
IndexTables(name) ==
    {TableInfo(name, <<idColumn({})>>, <<>>, i, <<>>) : i \in IndexLists}
ForeignKeyTables(name) ==
    {TableInfo(name, <<>>, <<>>, <<>>, f) : f \in ForeignKeyLists}

\* tables that vary in all four parts at once, each part between two values
MixedTables(name) ==
    {TableInfo(name, c, k, i, f) :
        c \in {<<idColumn({}), emailColumn>>, <<idColumn(ColumnFields)>>},
        k \in {<<"id">>, <<"email", "id">>},
        i \in {<<>>, <<emailIndex, idIndex(<<"id">>, FALSE)>>},
        f \in {<<ownerFK({})>>, <<parentFK, ownerFK({"Columns"})>>}}

\* tables that vary in columns and primary key
SmallTables(name) ==
    {TableInfo(name, c, k, <<>>, <<>>) :
        c \in {<<idColumn({}), emailColumn>>, <<idColumn(ColumnFields)>>},
        k \in {<<"id">>, <<"email", "id">>}}

\* the schema that holds the tables of the set ts, keyed by their names
\* (FetchSchema stores every TableInfo under its own Name)
SchemaOf(ts) ==
    Schema([n \in {t.Name : t \in ts} |-> CHOOSE t \in ts : t.Name = n])

\* the schemas with table users from `users` or no such table, and table
\* orders from `orders` or no such table
Schemas(users, orders) ==
    {SchemaOf(u \cup o) : u \in {{}} \cup {{t} : t \in users},
                          o \in {{}} \cup {{t} : t \in orders}}

\* the families of tables that vary in one part only
Families ==
    {ColumnTables("users"), PrimaryKeyTables("users"),
     IndexTables("users"), ForeignKeyTables("users")}

\* a table with no columns, keys, indexes or foreign keys, and one with some
PlainTables(name) ==
    {TableInfo(name, <<>>, <<>>, <<>>, <<>>),
     TableInfo(name, <<emailColumn>>, <<"email">>, <<emailIndex>>, <<>>)}

MixedSchemas == Schemas(MixedTables("users"), PlainTables("orders"))

SmallSchemas == Schemas(SmallTables("users"), PlainTables("orders"))

----------------------------------------------------------------------------
(* The state machine: one call of CompareSchemas(source, target), a step   *)
(* per visit of its two loops over the table maps.  pending is the set of  *)
(* keys the running loop has still to visit; returned is the list of the   *)
(* values returned so far, one per call; cli is the state of the command   *)
(* line program that calls the comparison, when one does.                  *)

\* the comparison is called directly, not from the command line program
NoCli == [step |-> "none"]

Start(src, tgt) ==
    /\ source = src
    /\ target = tgt
    /\ pc = "call"
    /\ pending = {}
    /\ differences = <<>>
    /\ returned = <<>>
    /\ cli = NoCli

\* the two schemas hold table users alone, drawn from one family, or are
\* any two of the mixed schemas
Init ==
    \/ \E family \in Families :
          \E a, b \in family : Start(SchemaOf({a}), SchemaOf({b}))
    \/ \E src, tgt \in MixedSchemas : Start(src, tgt)

\* entry: `var differences []Difference`, then the first loop starts
Call ==
    /\ pc = "call"
    /\ differences' = <<>>
    /\ pending' = DOMAIN source.Tables
    /\ pc' = "sourceLoop"
    /\ UNCHANGED <<cli, source, target, returned>>

\* SourceMissing whose lookup target.Tables[tableName] stores the zero
\* TableInfo under the key it did not find
SourceMissing_Inserts ==
    /\ pc = "sourceLoop"
    /\ \E tableName \in pending :
          /\ tableName \notin DOMAIN target.Tables
          /\ differences' = Append(differences,
                 Difference("MissingTable", tableName,
                            "Table exists in source but not in target"))
          /\ target' = Schema([n \in DOMAIN target.Tables \cup {tableName} |->
                                 IF n = tableName
                                 THEN TableInfo("", <<>>, <<>>, <<>>, <<>>)
                                 ELSE target.Tables[n]])
          /\ pending' = pending \ {tableName}
    /\ UNCHANGED <<cli, source, pc, returned>>

\* SourceMissing that leaves the first loop after the missing table
SourceMissing_Break ==
    /\ pc = "sourceLoop"
    /\ \E tableName \in pending :
          /\ tableName \notin DOMAIN target.Tables
          /\ differences' = Append(differences,
                 Difference("MissingTable", tableName,
                            "Table exists in source but not in target"))
          /\ pending' = {}
    /\ UNCHANGED <<cli, source, target, pc, returned>>

\* first loop, a table that target lacks
SourceMissing ==
    /\ pc = "sourceLoop"
    /\ \E tableName \in pending :
          /\ tableName \notin DOMAIN target.Tables
          /\ differences' = Append(differences,
                 Difference("MissingTable", tableName,
                            "Table exists in source but not in target"))
          /\ pending' = pending \ {tableName}
    /\ UNCHANGED <<cli, source, target, pc, returned>>

\* first loop, a table of both schemas
SourceCompare ==
    /\ pc = "sourceLoop"
    /\ \E tableName \in pending :
          /\ tableName \in DOMAIN target.Tables
          /\ \E ord \in TableOrders(source.Tables[tableName],
                                     target.Tables[tableName]) :
                differences' = differences \o
                    compareTable(tableName, source.Tables[tableName],
                                 target.Tables[tableName], ord)
          /\ pending' = pending \ {tableName}
    /\ UNCHANGED <<cli, source, target, pc, returned>>

\* the first loop ends, the second starts
SourceLoopEnd ==
    /\ pc = "sourceLoop"
    /\ pending = {}
    /\ pending' = DOMAIN target.Tables
    /\ pc' = "targetLoop"
    /\ UNCHANGED <<cli, source, target, differences, returned>>

\* TargetExtra without the lookup in source.Tables
TargetExtra_NoLookup ==
    /\ pc = "targetLoop"
    /\ \E tableName \in pending :
          /\ differences' = Append(differences,
                 Difference("ExtraTable", tableName,
                            "Table exists in target but not in source"))
          /\ pending' = pending \ {tableName}
    /\ UNCHANGED <<cli, source, target, pc, returned>>

\* second loop, a table that source lacks
TargetExtra ==
    /\ pc = "targetLoop"
    /\ \E tableName \in pending :
          /\ tableName \notin DOMAIN source.Tables
          /\ differences' = Append(differences,
                 Difference("ExtraTable", tableName,
                            "Table exists in target but not in source"))
          /\ pending' = pending \ {tableName}
    /\ UNCHANGED <<cli, source, target, pc, returned>>

\* second loop, a table of both schemas: nothing to do
TargetSkip ==
    /\ pc = "targetLoop"
    /\ \E tableName \in pending :
          /\ tableName \in DOMAIN source.Tables
          /\ pending' = pending \ {tableName}
    /\ UNCHANGED <<cli, source, target, pc, differences, returned>>

\* `return differences`
Return ==
    /\ pc = "targetLoop"
    /\ pending = {}
    /\ returned' = Append(returned, differences)
    /\ pc' = "done"
    /\ UNCHANGED <<cli, source, target, pending, differences>>

\* the caller runs the comparison again on the same two schemas
CallAgain ==
    /\ pc = "done"
    /\ Len(returned) < MaxCalls
    /\ pc' = "call"
    /\ UNCHANGED <<cli, source, target, pending, differences, returned>>

Next ==
    \/ Call
    \/ SourceMissing
    \/ SourceCompare
    \/ SourceLoopEnd
    \/ TargetExtra
    \/ TargetSkip
    \/ Return

Spec == Init /\ [][Next]_vars

\* repeated calls on the same inputs
InitRepeat == \E src, tgt \in SmallSchemas : Start(src, tgt)

NextRepeat == Next \/ CallAgain

SpecRepeat == InitRepeat /\ [][NextRepeat]_vars

\* the first call has returned: the caller runs the comparison once more,
\* on the same two schemas with the arguments exchanged
CallSwapped ==
    /\ pc = "done"
    /\ Len(returned) = 1
    /\ source' = target
    /\ target' = source
    /\ pc' = "call"
    /\ UNCHANGED <<cli, pending, differences, returned>>

NextSwap == Next \/ CallSwapped

SpecSwap == Init /\ [][NextSwap]_vars

----------------------------------------------------------------------------
(* The command line program: rootCmd.RunE and main, with schema.FetchSchema *)
(*                                                                         *)
(* cli.step is the statement RunE or main is at; cli.db are the schemas    *)
(* the two databases hold; cli.fetch is the running FetchSchema (its local *)
(* schema and the table names it has still to fetch); cli.fetched are the  *)
(* values the calls of FetchSchema returned; cli.attempted lists the steps *)
(* begun so far.  Whether a connection or a query succeeds is the          *)
(* environment's choice.                                                   *)

\* a nil *Schema, a nil error
Nil == [nil |-> TRUE]
NoError == ""

\* the table names in the order of `ORDER BY table_name`
SortedTableNames(db) ==
    SelectSeq(<<"orders", "users">>, LAMBDA n : n \in DOMAIN db.Tables)

\* fmt.Errorf("...: %w", err)
Wrap(message, err) == message \o ": " \o err

\* RunE returns err; main takes over
RunEReturns(err) == [cli EXCEPT !.step = "main", !.err = err]

InitCLI ==
    /\ \E src, tgt \in SmallSchemas :
          cli = [step |-> "connectSource",
                 db |-> [source |-> src, target |-> tgt],
                 fetch |-> Nil,
                 fetched |-> <<>>,
                 attempted |-> <<>>,
                 err |-> NoError,
                 stdout |-> <<>>,
                 exit |-> -1]
    /\ source = Nil
    /\ target = Nil
    /\ pc = "cli"
    /\ pending = {}
    /\ differences = <<>>
    /\ returned = <<>>

\* pgx.Connect to the source database
ConnectSource ==
    /\ cli.step = "connectSource"
    /\ \E ok \in BOOLEAN :
          cli' = IF ok
                 THEN [cli EXCEPT !.step = "connectTarget",
                                  !.attempted = Append(@, "connectSource")]
                 ELSE [RunEReturns(Wrap("error connecting to source database",
                                        "connection refused"))
                          EXCEPT !.attempted = Append(@, "connectSource")]
    /\ UNCHANGED <<source, target, pc, pending, differences, returned>>

\* pgx.Connect to the target database
ConnectTarget ==
    /\ cli.step = "connectTarget"
    /\ \E ok \in BOOLEAN :
          cli' = IF ok
                 THEN [cli EXCEPT !.step = "fetchSource",
                                  !.attempted = Append(@, "connectTarget")]
                 ELSE [RunEReturns(Wrap("error connecting to target database",
                                        "connection refused"))
                          EXCEPT !.attempted = Append(@, "connectTarget")]
    /\ UNCHANGED <<source, target, pc, pending, differences, returned>>

\* the database FetchSchema reads at this step of RunE
Side == IF cli.step = "fetchSource" THEN "source" ELSE "target"

\* FetchSchema returns (schema, err) to RunE, which keeps the schema and
\* goes on, or returns the wrapped error
FetchSchemaReturns(schema, err) ==
    LET kept == [cli EXCEPT !.fetch = Nil,
                            !.fetched = Append(@, [side |-> Side,
                                                   schema |-> schema,
                                                   err |-> err])]
    IN  IF err # NoError
        THEN [kept EXCEPT !.step = "main",
                          !.err = Wrap("error fetching " \o Side \o " schema", err)]
        ELSE [kept EXCEPT !.step = IF Side = "source" THEN "fetchTarget"
                                   ELSE "compare"]

\* FetchSchema, up to the end of the table name query: NewSchema, then the
\* query, the scan of its rows and rows.Err, any of which may fail
FetchSchemaTables ==
    /\ cli.step \in {"fetchSource", "fetchTarget"}
    /\ cli.fetch = Nil
    /\ \E failure \in {NoError, "error fetching tables", "error scanning table name",
                       "error iterating table names"} :
          LET begun == [cli EXCEPT !.attempted = Append(@, cli.step)]
          IN  cli' = IF failure = NoError
                     THEN [begun EXCEPT !.fetch =
                              [schema |-> NewSchema,
                               tableNames |-> SortedTableNames(cli.db[Side])]]
                     ELSE [FetchSchemaReturns(Nil, Wrap(failure, "query failed"))
                              EXCEPT !.attempted = Append(@, cli.step)]
    /\ UNCHANGED <<source, target, pc, pending, differences, returned>>

\* FetchSchemaTable that returns the schema filled so far with the error
FetchSchemaTable_ReturnsPartial ==
    /\ cli.step \in {"fetchSource", "fetchTarget"}
    /\ cli.fetch # Nil
    /\ cli.fetch.tableNames # <<>>
    /\ LET tableName == Head(cli.fetch.tableNames)
       IN  \E ok \in BOOLEAN :
              cli' = IF ok
                     THEN [cli EXCEPT
                             !.fetch.schema = Schema(
                                 [n \in DOMAIN cli.fetch.schema.Tables \cup {tableName}
                                    |-> cli.db[Side].Tables[n]]),
                             !.fetch.tableNames = Tail(@)]
                     ELSE FetchSchemaReturns(cli.fetch.schema,
                              Wrap("error fetching table info for " \o tableName,
                                   "query failed"))
    /\ UNCHANGED <<source, target, pc, pending, differences, returned>>

\* FetchSchema, one visit of the loop over tableNames: fetchTableInfo, which
\* may fail, and the store of its result under the table name
FetchSchemaTable ==
    /\ cli.step \in {"fetchSource", "fetchTarget"}
    /\ cli.fetch # Nil
    /\ cli.fetch.tableNames # <<>>
    /\ LET tableName == Head(cli.fetch.tableNames)
       IN  \E ok \in BOOLEAN :
              cli' = IF ok
                     THEN [cli EXCEPT
                             !.fetch.schema = Schema(
                                 [n \in DOMAIN cli.fetch.schema.Tables \cup {tableName}
                                    |-> cli.db[Side].Tables[n]]),
                             !.fetch.tableNames = Tail(@)]
                     ELSE FetchSchemaReturns(Nil,
                              Wrap("error fetching table info for " \o tableName,
                                   "query failed"))
    /\ UNCHANGED <<source, target, pc, pending, differences, returned>>

\* FetchSchema, `return schema, nil`
FetchSchemaDone ==
    /\ cli.step \in {"fetchSource", "fetchTarget"}
    /\ cli.fetch # Nil
    /\ cli.fetch.tableNames = <<>>
    /\ cli' = FetchSchemaReturns(cli.fetch.schema, NoError)
    /\ UNCHANGED <<source, target, pc, pending, differences, returned>>

\* the schema the call of FetchSchema for the side returned
Fetched(side) ==
    LET i == CHOOSE k \in 1..Len(cli.fetched) : cli.fetched[k].side = side
    IN  cli.fetched[i].schema

\* compare.CompareSchemas(sourceSchema, targetSchema)
Compare ==
    /\ cli.step = "compare"
    /\ pc = "cli"
    /\ source' = Fetched("source")
    /\ target' = Fetched("target")
    /\ pc' = "call"
    /\ cli' = [cli EXCEPT !.step = "print",
                          !.attempted = Append(@, "compare")]
    /\ UNCHANGED <<pending, differences, returned>>

\* the line printed for a difference
DifferenceLine(d) ==
    "[" \o d.Type \o "] " \o d.Table \o ": " \o d.Description

\* the result is printed and RunE returns nil
PrintResults ==
    /\ cli.step = "print"
    /\ pc = "done"
    /\ LET result == returned[Len(returned)]
       IN  cli' = [RunEReturns(NoError) EXCEPT
                     !.attempted = Append(@, "print"),
                     !.stdout =
                        IF Len(result) = 0
                        THEN <<"No differences found between the schemas.">>
                        ELSE <<"Found " \o FmtInt(Len(result)) \o " differences:", "">>
                             \o [i \in 1..Len(result) |-> DifferenceLine(result[i])]]
    /\ UNCHANGED <<source, target, pc, pending, differences, returned>>

\* main: an error of Execute is printed and the exit status is 1
Main ==
    /\ cli.step = "main"
    /\ cli' = IF cli.err # NoError
              THEN [cli EXCEPT !.step = "exit",
                               !.stdout = Append(@, cli.err),
                               !.exit = 1]
              ELSE [cli EXCEPT !.step = "exit", !.exit = 0]
    /\ UNCHANGED <<source, target, pc, pending, differences, returned>>

NextCLI ==
    \/ ConnectSource
    \/ ConnectTarget
    \/ FetchSchemaTables
    \/ FetchSchemaTable
    \/ FetchSchemaDone
    \/ Compare
    \/ Next
    \/ PrintResults
    \/ Main

SpecCLI == InitCLI /\ [][NextCLI]_vars

----------------------------------------------------------------------------
(* Vocabulary of the properties *)

Done == pc = "done"

\* the list the last call returned
Out == returned[Len(returned)]

SourceTables == DOMAIN source.Tables
TargetTables == DOMAIN target.Tables
BothTables == SourceTables \cap TargetTables

\* number of differences of the list out with the given kind and table
CountKind(out, kind, table) ==
    Count(out, LAMBDA d : d.Type = kind /\ d.Table = table)

\* number of occurrences of the difference (kind, table, description) in out
CountDiff(out, kind, table, description) ==
    Count(out, LAMBDA d : d = Difference(kind, table, description))

\* number of elements of the finite set S that satisfy P
HowMany(S, P(_)) == Cardinality({x \in S : P(x)})

WellFormedTable(t) ==
    WellFormed(t.Columns) /\ WellFormed(t.Indexes) /\ WellFormed(t.ForeignKeys)

WellFormedSchema(s) == \A n \in DOMAIN s.Tables : WellFormedTable(s.Tables[n])

\* the entry of the list that carries the name (the last one, should the
\* list repeat the name)
Entry(list, name) ==
    list[CHOOSE i \in 1..Len(list) :
            /\ list[i].Name = name
            /\ \A j \in (i + 1)..Len(list) : list[j].Name # name]

----------------------------------------------------------------------------
\* C1: a table of source that target lacks is reported by exactly one
\* MissingTable, a table of target that source lacks by exactly one
\* ExtraTable (the inputs hold every pair in both roles), and neither kind
\* is ever reported for a table both schemas hold.
C1_SymmetryOfAbsence ==
    Done =>
        /\ \A T \in SourceTables \ TargetTables :
              CountKind(Out, "MissingTable", T) = 1
        /\ \A T \in TargetTables \ SourceTables :
              CountKind(Out, "ExtraTable", T) = 1
        /\ \A T \in BothTables :
              /\ CountKind(Out, "MissingTable", T) = 0
              /\ CountKind(Out, "ExtraTable", T) = 0

C1_Witness ==
    /\ Done
    /\ SourceTables \ TargetTables # {}
    /\ TargetTables \ SourceTables # {}
    /\ Len(Out) = 2

\* C2: comparing a well-formed schema with itself returns the empty list,
\* tables without columns, keys, indexes and foreign keys included.
C2_Reflexivity ==
    (Done /\ source = target /\ WellFormedSchema(source)) => Out = <<>>

C2_Witness ==
    /\ Done
    /\ source = target
    /\ WellFormedSchema(source)
    /\ Cardinality(SourceTables) = 2
    /\ \E n \in SourceTables :
          source.Tables[n] = TableInfo(n, <<>>, <<>>, <<>>, <<>>)
    /\ \E n \in SourceTables : source.Tables[n].Indexes # <<>>
    /\ Out = <<>>

\* the name-to-item mappings of the lists of a table, as sets of rows
ColumnRows(t) ==
    {<<c.Name, c.Type, c.Nullable, c.Default, c.IsIdentity>> :
        c \in {t.Columns[i] : i \in 1..Len(t.Columns)}}
IndexRows(t) ==
    {<<x.Name, x.Unique, x.Columns>> :
        x \in {t.Indexes[i] : i \in 1..Len(t.Indexes)}}
ForeignKeyRows(t) ==
    {<<f.Name, f.ReferencedTable, f.Columns, f.ReferencedColumns>> :
        f \in {t.ForeignKeys[i] : i \in 1..Len(t.ForeignKeys)}}

SameTable(a, b) ==
    /\ ColumnRows(a) = ColumnRows(b)
    /\ a.PrimaryKeys = b.PrimaryKeys
    /\ IndexRows(a) = IndexRows(b)
    /\ ForeignKeyRows(a) = ForeignKeyRows(b)

SameSchema ==
    /\ SourceTables = TargetTables
    /\ \A n \in BothTables : SameTable(source.Tables[n], target.Tables[n])

\* C3: for well-formed schemas the returned list is empty exactly when the
\* two schemas hold the same tables with the same columns by name (in any
\* listing order), primary key, indexes by name and foreign keys by name.
C3_EmptyIffSame ==
    (Done /\ WellFormedSchema(source) /\ WellFormedSchema(target))
        => (Out = <<>> <=> SameSchema)

C3_Witness ==
    /\ Done
    /\ WellFormedSchema(source) /\ WellFormedSchema(target)
    /\ source # target
    /\ SameSchema
    /\ Out = <<>>

----------------------------------------------------------------------------
(* Items matched by name: columns, indexes, foreign keys *)

SharedNames(a, b) == Names(a) \cap Names(b)

\* the description of a mismatch of the item `name`: what differs, and the
\* two values as printed
MismatchText(label, name, what, s, g) ==
    label \o " '" \o name \o "' " \o what \o ": source=" \o s \o ", target=" \o g

\* the description of an item that only the schema `here` holds
OneSidedText(label, name, here, there) ==
    label \o " '" \o name \o "' exists in " \o here \o " but not in " \o there

\* a position where the sequences differ, or a different length
SlicesDiffer(a, b) ==
    Len(a) # Len(b) \/ \E i \in 1..Len(a) : a[i] # b[i]

\* the difference of kind `kind` is reported once for every name of `shared`
\* that satisfies differs, with the text text(name), and for nothing else
ReportedIff(table, kind, shared, differs(_), text(_)) ==
    /\ \A n \in shared :
          CountDiff(Out, kind, table, text(n)) = IF differs(n) THEN 1 ELSE 0
    /\ CountKind(Out, kind, table) = HowMany(shared, differs)

\* C4: for a column name both sides of a table hold, each of the four
\* fields is checked on its own: its mismatch kind is reported once when
\* the field differs and not at all when it agrees, whatever the other
\* fields do.
C4_ColumnFieldIndependence ==
    Done =>
        \A t \in BothTables :
            LET src == source.Tables[t].Columns
                tgt == target.Tables[t].Columns
                shared == SharedNames(src, tgt)
                S(n) == Entry(src, n)
                G(n) == Entry(tgt, n)
            IN  /\ ReportedIff(t, "ColumnTypeMismatch", shared,
                       LAMBDA n : S(n).Type # G(n).Type,
                       LAMBDA n : MismatchText("Column", n, "has different types",
                                               S(n).Type, G(n).Type))
                /\ ReportedIff(t, "ColumnNullableMismatch", shared,
                       LAMBDA n : S(n).Nullable # G(n).Nullable,
                       LAMBDA n : MismatchText("Column", n,
                                      "has different nullable settings",
                                      FmtBool(S(n).Nullable), FmtBool(G(n).Nullable)))
                /\ ReportedIff(t, "ColumnDefaultMismatch", shared,
                       LAMBDA n : S(n).Default # G(n).Default,
                       LAMBDA n : MismatchText("Column", n,
                                      "has different default values",
                                      S(n).Default, G(n).Default))
                /\ ReportedIff(t, "ColumnIdentityMismatch", shared,
                       LAMBDA n : S(n).IsIdentity # G(n).IsIdentity,
                       LAMBDA n : MismatchText("Column", n,
                                      "has different identity settings",
                                      FmtBool(S(n).IsIdentity),
                                      FmtBool(G(n).IsIdentity)))

\* a column that differs in all four fields: four differences
C4_Witness ==
    /\ Done
    /\ \E t \in BothTables :
          /\ source.Tables[t].Columns = <<idColumn({})>>
          /\ target.Tables[t].Columns = <<idColumn(ColumnFields)>>
          /\ source.Tables[t].PrimaryKeys = target.Tables[t].PrimaryKeys
          /\ Len(Out) = 4

\* the mismatch kinds of the three sorts of item
MismatchKinds(label) ==
    CASE label = "Column" ->
            {"ColumnTypeMismatch", "ColumnNullableMismatch",
             "ColumnDefaultMismatch", "ColumnIdentityMismatch"}
      [] label = "Index" -> {"IndexUniqueMismatch", "IndexColumnsMismatch"}
      [] label = "Foreign key" ->
            {"ForeignKeyReferenceMismatch", "ForeignKeyColumnsMismatch",
             "ForeignKeyReferencedColumnsMismatch"}

\* the descriptions a mismatch of the shared item named `name` can carry,
\* given its entries s and g on the two sides
MismatchTexts(label, name, s, g) ==
    CASE label = "Column" ->
            {MismatchText(label, name, "has different types", s.Type, g.Type),
             MismatchText(label, name, "has different nullable settings",
                          FmtBool(s.Nullable), FmtBool(g.Nullable)),
             MismatchText(label, name, "has different default values",
                          s.Default, g.Default),
             MismatchText(label, name, "has different identity settings",
                          FmtBool(s.IsIdentity), FmtBool(g.IsIdentity))}
      [] label = "Index" ->
            {MismatchText(label, name, "has different unique settings",
                          FmtBool(s.Unique), FmtBool(g.Unique)),
             MismatchText(label, name, "has different columns",
                          FmtStrings(s.Columns), FmtStrings(g.Columns))}
      [] label = "Foreign key" ->
            {MismatchText(label, name, "references different tables",
                          s.ReferencedTable, g.ReferencedTable),
             MismatchText(label, name, "has different columns",
                          FmtStrings(s.Columns), FmtStrings(g.Columns)),
             MismatchText(label, name, "references different columns",
                          FmtStrings(s.ReferencedColumns),
                          FmtStrings(g.ReferencedColumns))}

\* one sort of item of table t: every name of one side only is reported
\* once, as Missing or Extra, and every mismatch reported for the table is
\* about a name both sides hold
OneSidedRule(t, label, missing, extra, src, tgt) ==
    /\ \A n \in Names(src) \ Names(tgt) :
          /\ CountDiff(Out, missing, t,
                       OneSidedText(label, n, "source", "target")) = 1
          /\ CountDiff(Out, extra, t,
                       OneSidedText(label, n, "target", "source")) = 0
    /\ \A n \in Names(tgt) \ Names(src) :
          /\ CountDiff(Out, extra, t,
                       OneSidedText(label, n, "target", "source")) = 1
          /\ CountDiff(Out, missing, t,
                       OneSidedText(label, n, "source", "target")) = 0
    /\ CountKind(Out, missing, t) = Cardinality(Names(src) \ Names(tgt))
    /\ CountKind(Out, extra, t) = Cardinality(Names(tgt) \ Names(src))
    /\ \A i \in 1..Len(Out) :
          (Out[i].Table = t /\ Out[i].Type \in MismatchKinds(label)) =>
              \E n \in SharedNames(src, tgt) :
                  Out[i].Description \in
                      MismatchTexts(label, n, Entry(src, n), Entry(tgt, n))

\* C5: within a table of both schemas, a column, index or foreign-key name
\* of the source side only yields exactly one Missing difference, a name of
\* the target side only exactly one Extra difference, and nothing else.
C5_OneSidedNames ==
    Done =>
        \A t \in BothTables :
            /\ OneSidedRule(t, "Column", "MissingColumn", "ExtraColumn",
                   source.Tables[t].Columns, target.Tables[t].Columns)
            /\ OneSidedRule(t, "Index", "MissingIndex", "ExtraIndex",
                   source.Tables[t].Indexes, target.Tables[t].Indexes)
            /\ OneSidedRule(t, "Foreign key", "MissingForeignKey", "ExtraForeignKey",
                   source.Tables[t].ForeignKeys, target.Tables[t].ForeignKeys)

\* target holds an index that source lacks, and both hold another
C5_Witness ==
    /\ Done
    /\ \E t \in BothTables :
          /\ Names(target.Tables[t].Indexes) \ Names(source.Tables[t].Indexes) # {}
          /\ SharedNames(source.Tables[t].Indexes, target.Tables[t].Indexes) # {}
          /\ CountKind(Out, "ExtraIndex", t) = 1
          /\ CountKind(Out, "MissingIndex", t) = 0

----------------------------------------------------------------------------
\* C6: for a table of both schemas, primary keys of different lengths yield
\* exactly one PrimaryKeyMismatch, the one that gives the two counts; keys
\* of the same length yield one PrimaryKeyMismatch for every 0-based
\* position i where they differ, printed as position i+1, and no other.
C6_PrimaryKey ==
    Done =>
        \A t \in BothTables :
            LET src == source.Tables[t].PrimaryKeys
                tgt == target.Tables[t].PrimaryKeys
                atPosition(i) ==
                    "Primary key column mismatch at position " \o ToString(i + 1)
                    \o ": source=" \o src[i + 1] \o ", target=" \o tgt[i + 1]
            IN  IF Len(src) # Len(tgt)
                THEN /\ CountKind(Out, "PrimaryKeyMismatch", t) = 1
                     /\ CountDiff(Out, "PrimaryKeyMismatch", t,
                            "Different number of primary key columns: source="
                            \o ToString(Len(src)) \o ", target="
                            \o ToString(Len(tgt))) = 1
                ELSE ReportedIff(t, "PrimaryKeyMismatch", 0..(Len(src) - 1),
                         LAMBDA i : src[i + 1] # tgt[i + 1], atPosition)

\* two keys of two columns that differ at both positions
C6_Witness ==
    /\ Done
    /\ \E t \in BothTables :
          /\ Len(source.Tables[t].PrimaryKeys) = 2
          /\ Len(target.Tables[t].PrimaryKeys) = 2
          /\ source.Tables[t].PrimaryKeys[1] # target.Tables[t].PrimaryKeys[1]
          /\ source.Tables[t].PrimaryKeys[2] # target.Tables[t].PrimaryKeys[2]
          /\ CountKind(Out, "PrimaryKeyMismatch", t) = 2

\* C7: for an index name both sides of a table hold, IndexColumnsMismatch is
\* reported exactly when the column sequences differ in length or at some
\* position, IndexUniqueMismatch exactly when the unique flags differ, each
\* whatever the other does.
C7_IndexChecks ==
    Done =>
        \A t \in BothTables :
            LET src == source.Tables[t].Indexes
                tgt == target.Tables[t].Indexes
                shared == SharedNames(src, tgt)
                S(n) == Entry(src, n)
                G(n) == Entry(tgt, n)
            IN  /\ ReportedIff(t, "IndexColumnsMismatch", shared,
                       LAMBDA n : SlicesDiffer(S(n).Columns, G(n).Columns),
                       LAMBDA n : MismatchText("Index", n, "has different columns",
                                      FmtStrings(S(n).Columns),
                                      FmtStrings(G(n).Columns)))
                /\ ReportedIff(t, "IndexUniqueMismatch", shared,
                       LAMBDA n : S(n).Unique # G(n).Unique,
                       LAMBDA n : MismatchText("Index", n,
                                      "has different unique settings",
                                      FmtBool(S(n).Unique), FmtBool(G(n).Unique)))

\* the same columns in another order: a mismatch although the sets agree
C7_Witness ==
    /\ Done
    /\ \E t \in BothTables :
          \E n \in SharedNames(source.Tables[t].Indexes, target.Tables[t].Indexes) :
             LET a == Entry(source.Tables[t].Indexes, n).Columns
                 b == Entry(target.Tables[t].Indexes, n).Columns
             IN  /\ Len(a) = 2 /\ Len(b) = 2
                 /\ {a[1], a[2]} = {b[1], b[2]}
                 /\ a # b
                 /\ CountKind(Out, "IndexColumnsMismatch", t) = 1
                 /\ CountKind(Out, "IndexUniqueMismatch", t) = 0

\* C8: for a foreign-key name both sides of a table hold, the three checks
\* are made each on its own: ForeignKeyReferenceMismatch exactly when the
\* referenced tables differ, ForeignKeyColumnsMismatch exactly when the
\* local columns differ by position, ForeignKeyReferencedColumnsMismatch
\* exactly when the referenced columns differ by position.
C8_ForeignKeyChecks ==
    Done =>
        \A t \in BothTables :
            LET src == source.Tables[t].ForeignKeys
                tgt == target.Tables[t].ForeignKeys
                shared == SharedNames(src, tgt)
                S(n) == Entry(src, n)
                G(n) == Entry(tgt, n)
            IN  /\ ReportedIff(t, "ForeignKeyReferenceMismatch", shared,
                       LAMBDA n : S(n).ReferencedTable # G(n).ReferencedTable,
                       LAMBDA n : MismatchText("Foreign key", n,
                                      "references different tables",
                                      S(n).ReferencedTable, G(n).ReferencedTable))
                /\ ReportedIff(t, "ForeignKeyColumnsMismatch", shared,
                       LAMBDA n : SlicesDiffer(S(n).Columns, G(n).Columns),
                       LAMBDA n : MismatchText("Foreign key", n,
                                      "has different columns",
                                      FmtStrings(S(n).Columns),
                                      FmtStrings(G(n).Columns)))
                /\ ReportedIff(t, "ForeignKeyReferencedColumnsMismatch", shared,
                       LAMBDA n : SlicesDiffer(S(n).ReferencedColumns,
                                               G(n).ReferencedColumns),
                       LAMBDA n : MismatchText("Foreign key", n,
                                      "references different columns",
                                      FmtStrings(S(n).ReferencedColumns),
                                      FmtStrings(G(n).ReferencedColumns)))

\* a foreign key that differs in the referenced table and the referenced
\* columns, not in the local columns: two of the three differences
C8_Witness ==
    /\ Done
    /\ \E t \in BothTables :
          /\ source.Tables[t].ForeignKeys = <<ownerFK({})>>
          /\ target.Tables[t].ForeignKeys =
                 <<ownerFK({"ReferencedTable", "ReferencedColumns"})>>
          /\ CountKind(Out, "ForeignKeyReferenceMismatch", t) = 1
          /\ CountKind(Out, "ForeignKeyColumnsMismatch", t) = 0
          /\ CountKind(Out, "ForeignKeyReferencedColumnsMismatch", t) = 1

\* C9: no step of a call changes the source or the target schema.
C9_InputsUnchanged == [][source' = source /\ target' = target]_vars

\* a call that has visited tables of both maps and reported differences
C9_Witness ==
    /\ Done
    /\ BothTables # {}
    /\ SourceTables # TargetTables
    /\ Len(Out) > 1

----------------------------------------------------------------------------
(* Repeated calls on the same schemas *)

\* the same differences, each the same number of times
SameBag(x, y) ==
    \A d \in {x[i] : i \in 1..Len(x)} \cup {y[i] : i \in 1..Len(y)} :
        Count(x, LAMBDA e : e = d) = Count(y, LAMBDA e : e = d)

\* y is x with, at most, differences of the same table exchanged: every
\* position holds a difference of the same table in both, and a
\* MissingTable or ExtraTable stays where it is
SameButIntraTableOrder(x, y) ==
    /\ Len(x) = Len(y)
    /\ SameBag(x, y)
    /\ \A i \in 1..Len(x) :
          /\ x[i].Table = y[i].Table
          /\ x[i].Type \in {"MissingTable", "ExtraTable"} => y[i] = x[i]

\* C10 as stated: two calls on the same schemas return the same list up to
\* the order of the differences of one table; the order of the tables and
\* the places of MissingTable and ExtraTable are the same in both.
C10_SameTableOrder ==
    \A i, j \in 1..Len(returned) :
        SameButIntraTableOrder(returned[i], returned[j])

\* C10 as amended: two calls on the same schemas return the same
\* differences with the same multiplicities, and the ExtraTable differences
\* fill the same places, at the end of the list, in both; the order of the
\* tables and the places of MissingTable may differ.
C10_SameDifferences ==
    \A i, j \in 1..Len(returned) :
        LET x == returned[i]
            y == returned[j]
            extras(l) == {k \in 1..Len(l) : l[k].Type = "ExtraTable"}
        IN  /\ SameBag(x, y)
            /\ extras(x) = extras(y)
            /\ \A k \in extras(x) : \A m \in k..Len(x) : m \in extras(x)

\* two calls that visited the tables of source in different orders
C10_Witness ==
    /\ Len(returned) = 2
    /\ Done
    /\ \E k \in 1..Len(returned[1]) : returned[1][k].Table # returned[2][k].Table
    /\ \E k \in 1..Len(returned[1]) : returned[1][k].Type = "ExtraTable"

----------------------------------------------------------------------------
(* Lists that repeat a name *)

\* the list without the entries that a later entry of the same name follows
KeepLast(list) ==
    LET kept[i \in 0..Len(list)] ==
            IF i = 0 THEN <<>>
            ELSE IF \E j \in (i + 1)..Len(list) : list[j].Name = list[i].Name
            THEN kept[i - 1]
            ELSE Append(kept[i - 1], list[i])
    IN  kept[Len(list)]

KeepLastTable(t) ==
    TableInfo(t.Name, KeepLast(t.Columns), t.PrimaryKeys,
              KeepLast(t.Indexes), KeepLast(t.ForeignKeys))

\* the differences of the list out that belong to the table, in their order
OfTable(out, table) == SelectSeq(out, LAMBDA d : d.Table = table)

\* C11: when a column, index or foreign-key list repeats a name, only the
\* last entry of the name counts: the differences returned for a table are
\* exactly those the comparison produces, under some visiting order, for
\* the two tables with every earlier entry of a repeated name removed.
C11_LastEntryWins ==
    Done =>
        \A t \in BothTables :
            LET S == KeepLastTable(source.Tables[t])
                G == KeepLastTable(target.Tables[t])
            IN  \E ord \in TableOrders(S, G) :
                    OfTable(Out, t) = compareTable(t, S, G, ord)

\* source lists column id twice, first as target has it and last with all
\* four fields changed: the four mismatches of the last entry are returned
C11_Witness ==
    /\ Done
    /\ \E t \in BothTables :
          /\ source.Tables[t].Columns = <<idColumn({}), idColumn(ColumnFields)>>
          /\ target.Tables[t].Columns = <<idColumn({})>>
          /\ Len(OfTable(Out, t)) = 4

----------------------------------------------------------------------------
(* C12 *)

\* the steps of a run, in the order of RunE
Steps ==
    <<"connectSource", "connectTarget", "fetchSource", "fetchTarget",
      "compare", "print">>

\* CompareSchemas has been entered
CompareSchemasInvoked == pc # "cli"

\* C12: the steps of a run are begun in the order connect source, connect
\* target, fetch source, fetch target, compare, print.  CompareSchemas is
\* entered only after the four acquisition steps were begun and none of
\* them left an error, and it is given the two schemas the databases hold.
\* An error ends the run: the failed step is the last one begun,
\* CompareSchemas is never entered, nothing but the error is printed and
\* the exit status is 1.  Every return of FetchSchema carries either an
\* error and a nil schema, or no error and the whole schema of its
\* database.
C12_FailuresSurfaced ==
    /\ cli.attempted = SubSeq(Steps, 1, Len(cli.attempted))
    /\ CompareSchemasInvoked =>
          /\ Len(cli.attempted) >= 5
          /\ cli.err = NoError
          /\ Len(cli.fetched) = 2
          /\ \A i \in 1..2 : cli.fetched[i].err = NoError
          /\ source = cli.db.source
          /\ target = cli.db.target
    /\ cli.err # NoError =>
          /\ ~CompareSchemasInvoked
          /\ Len(cli.attempted) <= 4
          /\ cli.step \in {"main", "exit"}
          /\ returned = <<>>
          /\ cli.stdout = IF cli.step = "exit" THEN <<cli.err>> ELSE <<>>
    /\ cli.step = "exit" => cli.exit = IF cli.err # NoError THEN 1 ELSE 0
    /\ cli.step # "exit" => cli.exit = -1
    /\ \A i \in 1..Len(cli.fetched) :
          LET r == cli.fetched[i]
          IN  IF r.err # NoError
              THEN /\ r.schema = Nil
                   /\ i = Len(cli.fetched)
                   /\ cli.err = Wrap("error fetching " \o r.side \o " schema", r.err)
              ELSE r.schema = cli.db[r.side]

\* a run whose fetch of the target schema failed at its second table, after
\* the first table had been stored, and that has ended
C12_Witness ==
    /\ cli.step = "exit"
    /\ cli.exit = 1
    /\ DOMAIN cli.db.target.Tables = {"orders", "users"}
    /\ Len(cli.fetched) = 2
    /\ cli.fetched[2].schema = Nil
    /\ cli.fetched[2].err = "error fetching table info for users: query failed"
    /\ cli.attempted = SubSeq(Steps, 1, 4)
    /\ cli.stdout = <<"error fetching target schema: error fetching table info for users: query failed">>
    /\ ~CompareSchemasInvoked

----------------------------------------------------------------------------
(* C13 *)

ColumnKinds ==
    {"MissingColumn", "ExtraColumn", "ColumnTypeMismatch",
     "ColumnNullableMismatch", "ColumnDefaultMismatch",
     "ColumnIdentityMismatch"}

IndexKinds ==
    {"MissingIndex", "ExtraIndex", "IndexUniqueMismatch", "IndexColumnsMismatch"}

ForeignKeyKinds ==
    {"MissingForeignKey", "ExtraForeignKey", "ForeignKeyReferenceMismatch",
     "ForeignKeyColumnsMismatch", "ForeignKeyReferencedColumnsMismatch"}

\* the place of a kind in the order columns, primary key, indexes, foreign keys
Group(kind) ==
    IF kind \in ColumnKinds THEN 1
    ELSE IF kind = "PrimaryKeyMismatch" THEN 2
    ELSE IF kind \in IndexKinds THEN 3
    ELSE IF kind \in ForeignKeyKinds THEN 4
    ELSE 0

\* the positions of the list at which the table is named
Positions(out, table) == {i \in 1..Len(out) : out[i].Table = table}

\* the positions are consecutive
Contiguous(ps) == \A i \in ps : \A j \in ps : \A k \in i..j : k \in ps

\* C13: in the returned list the differences of every table stand next to
\* one another; those of a table present in both schemas are of the column,
\* primary key, index and foreign key kinds only and stand in that order of
\* kinds; and every ExtraTable difference stands after every difference of
\* another kind.
C13_BlockOrder ==
    Done =>
        /\ \A t \in SourceTables \cup TargetTables :
              Contiguous(Positions(Out, t))
        /\ \A t \in BothTables :
              /\ \A i \in Positions(Out, t) : Group(Out[i].Type) \in 1..4
              /\ \A i \in Positions(Out, t) : \A j \in Positions(Out, t) :
                    i < j => Group(Out[i].Type) <= Group(Out[j].Type)
        /\ \A i \in 1..Len(Out) : \A j \in 1..Len(Out) :
              (Out[i].Type = "ExtraTable" /\ Out[j].Type # "ExtraTable") => j < i

\* both tables are in both schemas; the block of users holds differences of
\* the four groups and the block of orders those of three
C13_Witness ==
    /\ Done
    /\ BothTables = {"orders", "users"}
    /\ {Group(Out[i].Type) : i \in Positions(Out, "users")} = 1..4
    /\ {Group(Out[i].Type) : i \in Positions(Out, "orders")} = 1..3
    /\ Len(OfTable(Out, "users")) >= 6

----------------------------------------------------------------------------
(* C14 *)

\* the list a call returns when every map is visited in the one order that
\* OneOrder picks for it: a value of source and target alone
OneOrder(S) == CHOOSE order \in Orders(S) : TRUE

ReferenceList ==
    LET srcOrder == OneOrder(SourceTables)
        tgtOrder == OneOrder(TargetTables)
        first[i \in 0..Len(srcOrder)] ==
            IF i = 0 THEN <<>>
            ELSE LET tableName == srcOrder[i]
                 IN  IF tableName \notin TargetTables
                     THEN Append(first[i - 1],
                              Difference("MissingTable", tableName,
                                         "Table exists in source but not in target"))
                     ELSE first[i - 1] \o
                          compareTable(tableName, source.Tables[tableName],
                              target.Tables[tableName],
                              CHOOSE ord \in TableOrders(source.Tables[tableName],
                                                         target.Tables[tableName]) : TRUE)
        second[i \in 0..Len(tgtOrder)] ==
            IF i = 0 THEN first[Len(srcOrder)]
            ELSE LET tableName == tgtOrder[i]
                 IN  IF tableName \notin SourceTables
                     THEN Append(second[i - 1],
                              Difference("ExtraTable", tableName,
                                         "Table exists in target but not in source"))
                     ELSE second[i - 1]
    IN  second[Len(tgtOrder)]

\* C14: whatever orders the table maps and the name maps of the tables were
\* visited in, the returned list holds the differences of the list of the
\* one reference order, each as many times: the multiset of the result is a
\* value of source and target alone.
C14_OrderIndependentBag ==
    Done => /\ Len(Out) = Len(ReferenceList)
            /\ SameBag(Out, ReferenceList)

\* a call that returned the differences of the reference order in another
\* order, both in the order of the tables and within a table
C14_Witness ==
    /\ Done
    /\ BothTables = {"users"}
    /\ SourceTables = {"orders", "users"}
    /\ Out # ReferenceList
    /\ OfTable(Out, "users") # OfTable(ReferenceList, "users")
    /\ Out[1].Table # ReferenceList[1].Table
    /\ Len(Out) >= 4

----------------------------------------------------------------------------
(* C15 *)

\* the kind with the roles of source and target exchanged
SwapKind(kind) ==
    CASE kind = "MissingTable" -> "ExtraTable"
      [] kind = "ExtraTable" -> "MissingTable"
      [] kind = "MissingColumn" -> "ExtraColumn"
      [] kind = "ExtraColumn" -> "MissingColumn"
      [] kind = "MissingIndex" -> "ExtraIndex"
      [] kind = "ExtraIndex" -> "MissingIndex"
      [] kind = "MissingForeignKey" -> "ExtraForeignKey"
      [] kind = "ExtraForeignKey" -> "MissingForeignKey"
      [] OTHER -> kind

\* the (kind, table) pairs of a list
KindTablePairs(out) == {<<out[i].Type, out[i].Table>> : i \in 1..Len(out)}

\* y holds the (kind, table) pairs of x with the kinds exchanged, each as
\* many times
SwappedBag(x, y) ==
    /\ Len(x) = Len(y)
    /\ \A p \in KindTablePairs(x) :
          CountKind(y, SwapKind(p[1]), p[2]) = CountKind(x, p[1], p[2])
    /\ \A p \in KindTablePairs(y) :
          CountKind(x, SwapKind(p[1]), p[2]) = CountKind(y, p[1], p[2])

\* C15: a call with the arguments of the call before it exchanged returns
\* as many differences, and as many of every (kind, table) pair once
\* Missing and Extra kinds are exchanged and the mismatch kinds kept.
C15_RoleSwap ==
    (Done /\ Len(returned) = 2) => SwappedBag(returned[1], returned[2])

\* the two calls have returned; the first list holds a Missing kind, an
\* Extra kind, a primary key mismatch and another mismatch
C15_Witness ==
    /\ Done
    /\ Len(returned) = 2
    /\ \E i, j, k, l \in 1..Len(returned[1]) :
          /\ returned[1][i].Type = "MissingColumn"
          /\ returned[1][j].Type = "ExtraIndex"
          /\ returned[1][k].Type = "PrimaryKeyMismatch"
          /\ returned[1][l].Type = "ForeignKeyColumnsMismatch"
    /\ \E i \in 1..Len(returned[2]) : returned[2][i].Type = "ExtraColumn"
    /\ \E i \in 1..Len(returned[2]) : returned[2][i].Type = "MissingIndex"

=============================================================================
